---- MODULE Spec2Model ----
(***************************************************************************)
(* Model of the http-splitter configuration layer (src/config.rs,          *)
(* src/config/listener.rs, src/config/response.rs) and of the request      *)
(* dispatch / response resolution engine described in spec.md.             *)
(*                                                                         *)
(* The specifications of the module:                                       *)
(*   SpecListener    ListenerConfig::validate applied to one listener      *)
(*   SpecLoad        AppConfig::new called repeatedly (APP_CONFIG)         *)
(*   SpecEngine      one inbound request handled by one listener           *)
(*   FairSpecEngine  SpecEngine with a deadline timer that fires           *)
(*                                                                         *)
(* listener.rs is written against a ResponseConfig with the accessors      *)
(* strategy(), target_selector() (an optional target id) and validate(),   *)
(* and with a ConditionalRouting strategy; validate is modelled as         *)
(* listener.rs uses them.                                                  *)
(***************************************************************************)
EXTENDS Integers, Sequences, FiniteSets, TLC

VARIABLES
    listener,     \* SpecListener: the ListenerConfig under validation
    vresult,      \* SpecListener: what validate returned ("NotRun" before the call)
    APP_CONFIG,   \* SpecLoad: the OnceCell (<<>> = empty, <<c>> = set to c)
    loaded,       \* SpecLoad: what the last AppConfig::new call read from its file
    result,       \* SpecLoad: what the last AppConfig::new call returned
    returned,     \* SpecLoad: the &AppConfig the last call returned (<<>> on Err)
    validated,    \* SpecLoad: indices of the listeners validated by the last call, in order
    cfg,          \* SpecEngine: the validated listener serving the request
    req,          \* SpecEngine: the inbound request (NoRequest before it arrives)
    phase,        \* SpecEngine: "idle", "rejected", "dispatched" or "responded"
    outcome,      \* SpecEngine: target id -> TargetOutcome
    clock,        \* SpecEngine: time since dispatch, up to the shared deadline
    cancelSig,    \* SpecEngine: targets the coordinator signalled to cancel
    decision,     \* SpecEngine: the resolver result the coordinator acted on last
    response      \* SpecEngine: the final response (NoResponse until returned)

cfgVars == <<listener, vresult, APP_CONFIG, loaded, result, returned, validated>>
engVars == <<cfg, req, phase, outcome, clock, cancelSig, decision, response>>
vars == <<cfgVars, engVars>>

(***************************************************************************)
(* Bounds                                                                  *)
(***************************************************************************)
MaxTargets == 2      \* longest target list of a validated listener
MaxListeners == 2    \* longest listener list of a loaded configuration
Deadline == 2        \* the listener's timeout, in clock ticks

None == "None"

(***************************************************************************)
(* src/config/response.rs: ResponseStrategy (plus ConditionalRouting, which *)
(* listener.rs matches on)                                                  *)
(***************************************************************************)
TargetIdStrategies == {"AlwaysTargetId", "FailedThenTargetId", "OkThenTargetId"}

ResponseStrategy ==
    {"AlwaysOverride", "AlwaysTargetId", "OkThenFailed", "OkThenTargetId",
     "OkThenOverride", "FailedThenOk", "FailedThenTargetId", "FailedThenOverride",
     "ConditionalRouting"}

DefaultStrategy == "FailedThenOverride"

(***************************************************************************)
(* Configuration values                                                    *)
(***************************************************************************)
TargetIds == {"T1", "T2"}
UnknownId == "T9"
\* Option<TargetConditionConfig>: absent, Default, or a query expression
Conditions == {None, "Default", "Q1"}

\* valid = the result of TargetConfig::validate on this target
TargetConfigs == [id : TargetIds, condition : Conditions, valid : BOOLEAN]

SeqsUpTo(S, n) == UNION {[1..k -> S] : k \in 0..n}

\* response_valid = the result of ResponseConfig::validate
ListenerConfigsOf(names, targetLists, strategies) ==
    [name : names,
     targets : targetLists,
     strategy : strategies,
     target_selector : {None, UnknownId} \cup TargetIds,
     response_valid : BOOLEAN]

ListenerConfigs ==
    ListenerConfigsOf({"L1"}, SeqsUpTo(TargetConfigs, MaxTargets), ResponseStrategy)

(***************************************************************************)
(* Results: Ok(()) or Err(HttpDragonflyError)                              *)
(***************************************************************************)
Ok == [kind |-> "Ok", cause |-> "", listener |-> ""]
Err(kind, cause, name) == [kind |-> kind, cause |-> cause, listener |-> name]
NotRun == [kind |-> "NotRun", cause |-> "", listener |-> ""]

Range(s) == {s[i] : i \in DOMAIN s}

TargetIdsOf(l) == [i \in DOMAIN l.targets |-> l.targets[i].id]

\* listener.rs:193: self.targets().iter().map(TargetConfig::id).count()
\* Iterator::count counts the mapped elements, duplicates included.
unique_targets_count(l) == Len(TargetIdsOf(l))

\* listener.rs:221-230
default_count(l) ==
    Cardinality({i \in DOMAIN l.targets : l.targets[i].condition = "Default"})

\* listener.rs:212-258: the match on the strategy
StrategyRequirementsMutNoDefaultLimit(l) ==
    IF l.strategy = "ConditionalRouting" THEN
        IF \E i \in DOMAIN l.targets : l.targets[i].condition = None
        THEN Err("InvalidConfig", "all targets must have condition defined", l.name)
        ELSE Ok
    ELSE IF l.strategy \in TargetIdStrategies THEN
        IF l.target_selector # None THEN
            IF l.target_selector \notin Range(TargetIdsOf(l))
            THEN Err("InvalidConfig", "target_selector points to unknown target_id", l.name)
            ELSE Ok
        ELSE Err("InvalidConfig", "target_selector should be specified", l.name)
    ELSE Ok

StrategyRequirementsMutAnySelector(l) ==
    IF l.strategy = "ConditionalRouting" THEN
        IF \E i \in DOMAIN l.targets : l.targets[i].condition = None
        THEN Err("InvalidConfig", "all targets must have condition defined", l.name)
        ELSE IF default_count(l) > 1
        THEN Err("InvalidConfig", "more than one default target is defined", l.name)
        ELSE Ok
    ELSE IF l.strategy \in TargetIdStrategies THEN
        IF l.target_selector # None THEN Ok
        ELSE Err("InvalidConfig", "target_selector should be specified", l.name)
    ELSE Ok

StrategyRequirements(l) ==
    IF l.strategy = "ConditionalRouting" THEN
        IF \E i \in DOMAIN l.targets : l.targets[i].condition = None
        THEN Err("InvalidConfig", "all targets must have condition defined", l.name)
        ELSE IF default_count(l) > 1
        THEN Err("InvalidConfig", "more than one default target is defined", l.name)
        ELSE Ok
    ELSE IF l.strategy \in TargetIdStrategies THEN
        IF l.target_selector # None THEN
            IF l.target_selector \notin Range(TargetIdsOf(l))
            THEN Err("InvalidConfig", "target_selector points to unknown target_id", l.name)
            ELSE Ok
        ELSE Err("InvalidConfig", "target_selector should be specified", l.name)
    ELSE Ok

\* listener.rs:204-206: for target in self.targets() { target.validate()?; }
RECURSIVE ValidateTargets(_, _)
ValidateTargets(l, i) ==
    IF i > Len(l.targets) THEN Ok
    ELSE IF ~l.targets[i].valid THEN Err("TargetError", "target.validate", l.name)
    ELSE ValidateTargets(l, i + 1)

\* listener.rs:191-261: ListenerConfig::validate
ListenerValidate(l) ==
    IF unique_targets_count(l) # Len(l.targets)
    THEN Err("InvalidConfig", "all target IDs should be unique", l.name)
    ELSE IF ValidateTargets(l, 1) # Ok THEN ValidateTargets(l, 1)
    ELSE IF ~l.response_valid THEN Err("ResponseError", "response.validate", l.name)
    ELSE StrategyRequirements(l)

IdleListener ==
    [name |-> "L1", targets |-> <<>>, strategy |-> DefaultStrategy,
     target_selector |-> None, response_valid |-> TRUE]

(***************************************************************************)
(* Engine values                                                           *)
(***************************************************************************)
NoMethods == [some |-> FALSE, list |-> <<>>]
NoRequest == [method |-> "", matched |-> {}]
NoOutcome == [state |-> "NotDispatched", status |-> 0, elapsed |-> 0]
PendingOutcome == [state |-> "Pending", status |-> 0, elapsed |-> 0]
NoDecision == [kind |-> "None", source |-> ""]
NotYetDecidable == [kind |-> "NotYetDecidable", source |-> ""]
Decided(source) == [kind |-> "Decided", source |-> source]
NoResponse == [source |-> "", outcome |-> NoOutcome]

IdleEngineConfig ==
    [methods |-> NoMethods,
     conditions |-> [t \in TargetIds |-> None],
     strategy |-> DefaultStrategy,
     policy |-> "Fastest",
     target_selector |-> None,
     failure_on_timeout |-> TRUE,
     cancel_unneeded_targets |-> FALSE,
     has_override |-> FALSE]

EngineIdle ==
    /\ cfg = IdleEngineConfig
    /\ req = NoRequest
    /\ phase = "idle"
    /\ outcome = [t \in TargetIds |-> NoOutcome]
    /\ clock = 0
    /\ cancelSig = {}
    /\ decision = NoDecision
    /\ response = NoResponse

(***************************************************************************)
(* SpecListener: validate applied to every listener of the bounded set     *)
(***************************************************************************)
NotLoaded == [kind |-> "NotLoaded", listeners |-> <<>>]

LoadIdle ==
    /\ APP_CONFIG = <<>>
    /\ loaded = NotLoaded
    /\ result = NotRun
    /\ returned = <<>>
    /\ validated = <<>>

InitListener ==
    /\ listener \in ListenerConfigs
    /\ vresult = NotRun
    /\ LoadIdle
    /\ EngineIdle

Validate ==
    /\ vresult = NotRun
    /\ vresult' = ListenerValidate(listener)
    /\ UNCHANGED <<listener, APP_CONFIG, loaded, result, returned, validated>>
    /\ UNCHANGED engVars

NextListener == Validate

SpecListener == InitListener /\ [][NextListener]_vars

(***************************************************************************)
(* SpecLoad: AppConfig::new called again and again on files whose content  *)
(* is chosen at each call                                                  *)
(***************************************************************************)
\* The listeners a loaded file may hold: one target T1, the strategy
\* AlwaysTargetId, the selector absent, unknown or T1, two names.
LoadListeners ==
    {l \in ListenerConfigsOf({"L1", "L2"},
                             {<<[id |-> "T1", condition |-> None, valid |-> TRUE]>>},
                             {"AlwaysTargetId"}) :
        l.response_valid /\ l.target_selector # "T2"}

\* What a call finds in its file: no readable file, text serde_yaml rejects,
\* or a parsed AppConfig.
FileContents ==
    {[kind |-> "Unreadable", listeners |-> <<>>],
     [kind |-> "Unparsable", listeners |-> <<>>]}
    \cup [kind : {"Config"}, listeners : SeqsUpTo(LoadListeners, MaxListeners)]

\* config.rs:69-71: for listener in self.listeners() { listener.validate()?; }
\* Returns the result and the indices visited.
ValidateListenersMutKeepGoing(ls, i, seen) ==
    LET bad == {j \in i..Len(ls) : ListenerValidate(ls[j]) # Ok}
        last == CHOOSE j \in bad : \A k \in bad : k <= j
    IN  [res |-> IF bad = {} THEN Ok ELSE ListenerValidate(ls[last]),
         seen |-> seen \o [j \in 1..(Len(ls) - i + 1) |-> i + j - 1]]

RECURSIVE ValidateListeners(_, _, _)
ValidateListeners(ls, i, seen) ==
    IF i > Len(ls) THEN [res |-> Ok, seen |-> seen]
    ELSE IF ListenerValidate(ls[i]) # Ok
         THEN [res |-> ListenerValidate(ls[i]), seen |-> Append(seen, i)]
         ELSE ValidateListeners(ls, i + 1, Append(seen, i))

\* config.rs:62-74: AppConfig::validate
AppValidate(ls) ==
    IF Len(ls) = 0
    THEN [res |-> Err("ValidateConfig", "at least one listener must be configured", ""),
          seen |-> <<>>]
    ELSE ValidateListeners(ls, 1, <<>>)

\* config.rs:36-54: AppConfig::from_file and AppConfig::from_reader
from_file(content) ==
    IF content.kind = "Unreadable"
    THEN [res |-> Err("Io", "File::open / read_to_string", ""), seen |-> <<>>]
    ELSE IF content.kind = "Unparsable"
    THEN [res |-> Err("ParseConfigFile", "serde_yaml::from_str", ""), seen |-> <<>>]
    ELSE AppValidate(content.listeners)

\* config.rs:33: APP_CONFIG.get_or_init(|| config)
get_or_initMutOverwrite(cell, config) == <<config>>

get_or_init(cell, config) == IF cell = <<>> THEN <<config>> ELSE cell

InitLoad ==
    /\ listener = IdleListener
    /\ vresult = NotRun
    /\ LoadIdle
    /\ EngineIdle

\* config.rs:31-34: AppConfig::new
New ==
    \E content \in FileContents :
        LET r == from_file(content) IN
        /\ loaded' = content
        /\ result' = r.res
        /\ validated' = r.seen
        /\ IF r.res = Ok
           THEN /\ APP_CONFIG' = get_or_init(APP_CONFIG, content.listeners)
                /\ returned' = APP_CONFIG'
           ELSE /\ APP_CONFIG' = APP_CONFIG
                /\ returned' = <<>>
        /\ UNCHANGED <<listener, vresult>>
        /\ UNCHANGED engVars

NextLoad == New

SpecLoad == InitLoad /\ [][NextLoad]_vars

(***************************************************************************)
(* SpecEngine: one inbound request on one validated listener               *)
(***************************************************************************)
RequestMethods == {"GET", "get", "POST"}

\* str::to_lowercase on the method names above
to_lowercase(m) ==
    CASE m = "GET" -> "get"
      [] m = "POST" -> "post"
      [] OTHER -> m

\* listener.rs:63-70: ListenerConfig::is_method_allowed
is_method_allowedMutNoLowercase(l, method) ==
    IF l.methods.some
    THEN method \in Range(l.methods.list)
    ELSE TRUE

is_method_allowed(l, method) ==
    IF l.methods.some
    THEN to_lowercase(method) \in Range(l.methods.list)
    ELSE TRUE

MethodsConfigs ==
    {NoMethods, [some |-> TRUE, list |-> <<"get">>], [some |-> TRUE, list |-> <<"GET">>]}

\* Validated listeners whose strategy races every target
RacingConfigs ==
    {c \in [methods : MethodsConfigs,
            conditions : {[t \in TargetIds |-> None]},
            strategy : ResponseStrategy \ {"ConditionalRouting"},
            policy : {"Fastest", "Slowest", "Random"},
            target_selector : TargetIds \cup {None},
            failure_on_timeout : BOOLEAN,
            cancel_unneeded_targets : BOOLEAN,
            has_override : BOOLEAN] :
        (c.strategy \in TargetIdStrategies) <=> (c.target_selector # None)}

\* Validated conditional-routing listeners: every target has a condition and
\* at most one is Default
RoutingConfigs ==
    {c \in [methods : MethodsConfigs,
            conditions : [TargetIds -> {"Default", "Q1", "Q2"}],
            strategy : {"ConditionalRouting"},
            policy : {"Fastest"},
            target_selector : {None},
            failure_on_timeout : {TRUE},
            cancel_unneeded_targets : BOOLEAN,
            has_override : BOOLEAN] :
        Cardinality({t \in TargetIds : c.conditions[t] = "Default"}) <= 1}

EngineConfigs == RacingConfigs \cup RoutingConfigs

\* response.rs:31: failure_status_regex "4\d{2}|5\d{2}" on a three-digit code
FailureStatus(code) == (code \div 100) \in {4, 5}

IsTerminal(o) == o.state \in {"Completed", "Failed", "TimedOut", "Cancelled"}

IsOk(c, o) ==
    \/ o.state = "Completed" /\ ~FailureStatus(o.status)
    \/ o.state = "TimedOut" /\ ~c.failure_on_timeout

IsFailed(c, o) ==
    \/ o.state = "Completed" /\ FailureStatus(o.status)
    \/ o.state = "TimedOut" /\ c.failure_on_timeout
    \/ o.state = "Failed"

DispatchedTargets(out) == {t \in TargetIds : out[t].state # "NotDispatched"}
PendingTargets(out) == {t \in TargetIds : out[t].state = "Pending"}
DispatchComplete(out) == PendingTargets(out) = {}

\* Condition Evaluator and step (1) of the Dispatch Coordinator
MatchingNonDefault(c, matched) == {t \in TargetIds : c.conditions[t] \in matched}

EligibleMutDefaultAlways(c, matched) ==
    IF c.strategy # "ConditionalRouting" THEN TargetIds
    ELSE MatchingNonDefault(c, matched)
            \cup {t \in TargetIds : c.conditions[t] = "Default"}

Eligible(c, matched) ==
    IF c.strategy # "ConditionalRouting" THEN TargetIds
    ELSE IF MatchingNonDefault(c, matched) # {}
         THEN MatchingNonDefault(c, matched)
         ELSE {t \in TargetIds : c.conditions[t] = "Default"}

\* Selection policy among the outcomes of one category
Pick(policy, S, out) ==
    CASE policy = "Fastest" -> {t \in S : \A u \in S : out[t].elapsed <= out[u].elapsed}
      [] policy = "Slowest" -> {t \in S : \A u \in S : out[t].elapsed >= out[u].elapsed}
      [] OTHER -> S

\* The rows "X then Y" of the strategy table: first = the preferred category,
\* second = what is used once dispatch is complete and first is empty
PreferThen(c, out, first, fallback) ==
    IF first # {} THEN {Decided(t) : t \in Pick(c.policy, first, out)}
    ELSE IF DispatchComplete(out) /\ fallback # {} THEN fallback
    ELSE {NotYetDecidable}

\* Response Resolver: the set of results it may return for an outcome map
Resolve(c, out) ==
    LET oks == {t \in TargetIds : IsOk(c, out[t])}
        faileds == {t \in TargetIds : IsFailed(c, out[t])}
        named == {Decided(c.target_selector)}
        override == {Decided("Override")}
        pickOf(S) == {Decided(t) : t \in Pick(c.policy, S, out)}
    IN  CASE c.strategy = "AlwaysOverride" -> override
          [] c.strategy = "AlwaysTargetId" ->
                IF IsTerminal(out[c.target_selector]) THEN named ELSE {NotYetDecidable}
          [] c.strategy = "OkThenFailed" -> PreferThen(c, out, oks, pickOf(faileds))
          [] c.strategy = "OkThenTargetId" -> PreferThen(c, out, oks, named)
          [] c.strategy = "OkThenOverride" -> PreferThen(c, out, oks, override)
          [] c.strategy = "FailedThenOk" -> PreferThen(c, out, faileds, pickOf(oks))
          [] c.strategy = "FailedThenTargetId" -> PreferThen(c, out, faileds, named)
          [] c.strategy = "FailedThenOverride" -> PreferThen(c, out, faileds, override)
          [] OTHER ->
                IF DispatchComplete(out) /\ DispatchedTargets(out) # {}
                THEN {Decided(t) : t \in DispatchedTargets(out)}
                ELSE {NotYetDecidable}

CancelSet(c, out) == IF c.cancel_unneeded_targets THEN PendingTargets(out) ELSE {}

ResponseOf(d, out) ==
    [source |-> d.source,
     outcome |-> IF d.source \in TargetIds THEN out[d.source] ELSE NoOutcome]

\* Steps (3)-(5) of the Dispatch Coordinator on the outcome map out
Coordinate(out) ==
    \E d \in Resolve(cfg, out) :
        /\ decision' = d
        /\ IF d.kind = "Decided"
           THEN /\ response' = ResponseOf(d, out)
                /\ cancelSig' = CancelSet(cfg, out)
                /\ phase' = "responded"
           ELSE IF DispatchComplete(out)
           THEN /\ response' = [source |-> IF cfg.has_override THEN "Override"
                                           ELSE "InternalError",
                                outcome |-> NoOutcome]
                /\ cancelSig' = {}
                /\ phase' = "responded"
           ELSE /\ phase' = "dispatched"
                /\ UNCHANGED <<response, cancelSig>>

InitEngine ==
    /\ listener = IdleListener
    /\ vresult = NotRun
    /\ LoadIdle
    /\ cfg \in EngineConfigs
    /\ req = NoRequest
    /\ phase = "idle"
    /\ outcome = [t \in TargetIds |-> NoOutcome]
    /\ clock = 0
    /\ cancelSig = {}
    /\ decision = NoDecision
    /\ response = NoResponse

\* The conditions of cfg the Condition Evaluator can find true for a request
Expressions(c) == {c.conditions[t] : t \in TargetIds} \ {None, "Default"}

\* Listener Handler, disallowed method: rejection before any dispatch
Reject ==
    \E m \in RequestMethods, matched \in SUBSET Expressions(cfg) :
        /\ phase = "idle"
        /\ ~is_method_allowed(cfg, m)
        /\ req' = [method |-> m, matched |-> matched]
        /\ phase' = "rejected"
        /\ response' = [source |-> "Rejected405", outcome |-> NoOutcome]
        /\ UNCHANGED <<cfg, outcome, clock, cancelSig, decision>>
        /\ UNCHANGED cfgVars

\* Listener Handler, allowed method: steps (1)-(2) of the Dispatch Coordinator
\* and the resolver's first invocation
Dispatch ==
    \E m \in RequestMethods, matched \in SUBSET Expressions(cfg) :
        /\ phase = "idle"
        /\ is_method_allowed(cfg, m)
        /\ req' = [method |-> m, matched |-> matched]
        /\ outcome' = [t \in TargetIds |->
                          IF t \in Eligible(cfg, matched) THEN PendingOutcome
                          ELSE NoOutcome]
        /\ Coordinate(outcome')
        /\ UNCHANGED <<cfg, clock>>
        /\ UNCHANGED cfgVars

\* Target Invoker: the outcome of t becomes o; while the coordinator has not
\* returned, it feeds the new map to the resolver
TransitionMutAnyState(t, o) ==
    /\ phase \in {"dispatched", "responded"}
    /\ outcome[t].state # "NotDispatched"
    /\ outcome' = [outcome EXCEPT ![t] = o]
    /\ IF phase = "dispatched"
       THEN Coordinate(outcome')
       ELSE UNCHANGED <<phase, response, cancelSig, decision>>
    /\ UNCHANGED <<cfg, req>>
    /\ UNCHANGED cfgVars

Transition(t, o) ==
    /\ phase \in {"dispatched", "responded"}
    /\ outcome[t].state = "Pending"
    /\ outcome' = [outcome EXCEPT ![t] = o]
    /\ IF phase = "dispatched"
       THEN Coordinate(outcome')
       ELSE UNCHANGED <<phase, response, cancelSig, decision>>
    /\ UNCHANGED <<cfg, req>>
    /\ UNCHANGED cfgVars

\* the response of t arrives before the deadline; elapsed is wall-clock time,
\* so two outcomes observed one after the other never carry the same elapsed
CompleteTarget ==
    \E t \in TargetIds, status \in {200, 500} :
        /\ clock < Deadline
        /\ Transition(t, [state |-> "Completed", status |-> status, elapsed |-> clock])
        /\ clock' = clock + 1

\* a transport error before the deadline
FailTarget ==
    \E t \in TargetIds :
        /\ clock < Deadline
        /\ Transition(t, [state |-> "Failed", status |-> 0, elapsed |-> clock])
        /\ clock' = clock + 1

\* the shared deadline expires
TimeoutTarget ==
    \E t \in TargetIds :
        /\ clock = Deadline
        /\ Transition(t, [state |-> "TimedOut", status |-> 0, elapsed |-> clock])
        /\ UNCHANGED clock

\* the invoker of t sees the coordinator's cancellation signal
CancelTarget ==
    \E t \in TargetIds :
        /\ t \in cancelSig
        /\ Transition(t, [state |-> "Cancelled", status |-> 0, elapsed |-> clock])
        /\ UNCHANGED clock

Tick ==
    /\ phase \in {"dispatched", "responded"}
    /\ PendingTargets(outcome) # {}
    /\ clock < Deadline
    /\ clock' = clock + 1
    /\ UNCHANGED <<cfg, req, phase, outcome, cancelSig, decision, response>>
    /\ UNCHANGED cfgVars

NextEngine ==
    \/ Reject
    \/ Dispatch
    \/ CompleteTarget
    \/ FailTarget
    \/ TimeoutTarget
    \/ CancelTarget
    \/ Tick

SpecEngine == InitEngine /\ [][NextEngine]_vars

\* The deadline timer runs and fires: time passes while a target is pending,
\* and at the deadline every invoker still pending is woken.
FairSpecEngine == SpecEngine /\ WF_vars(Tick) /\ WF_vars(TimeoutTarget)

(***************************************************************************)
(* Claims about loading (SpecLoad)                                         *)
(***************************************************************************)
FailingListeners(ls) == {i \in DOMAIN ls : ListenerValidate(ls[i]) # Ok}

Min(S) == CHOOSE x \in S : \A y \in S : x <= y

\* C9: a load returns Ok only if the parsed configuration has at least one
\* listener and every listener validates; an empty listener list gives the
\* ValidateConfig error; otherwise the result is the error of the first listener
\* in declared order that fails, and no listener after it is validated.
C9_LoadValidates ==
    LET ls == loaded.listeners IN
    /\ result = Ok =>
          /\ loaded.kind = "Config"
          /\ Len(ls) >= 1
          /\ \A i \in DOMAIN ls : ListenerValidate(ls[i]) = Ok
    /\ (loaded.kind = "Config" /\ Len(ls) = 0) =>
          result = Err("ValidateConfig", "at least one listener must be configured", "")
    /\ (loaded.kind = "Config" /\ FailingListeners(ls) # {}) =>
          LET k == Min(FailingListeners(ls)) IN
          /\ result = ListenerValidate(ls[k])
          /\ validated = [i \in 1..k |-> i]
    /\ (loaded.kind = "Config" /\ Len(ls) >= 1 /\ FailingListeners(ls) = {}) =>
          result = Ok

C9_Witness ==
    /\ loaded.kind = "Config"
    /\ Len(loaded.listeners) = 2
    /\ loaded.listeners[1].target_selector = None
    /\ loaded.listeners[2].target_selector = UnknownId
    /\ result = Err("InvalidConfig", "target_selector should be specified",
                    loaded.listeners[1].name)
    /\ validated = <<1>>

\* C10: the singleton is write-once: a failing AppConfig::new call leaves
\* APP_CONFIG as it was, the first successful call sets it to the configuration
\* it loaded, a set APP_CONFIG never changes, and every successful call returns
\* the content of APP_CONFIG (so a later call returns the first configuration,
\* whatever it loaded itself).
C10_WriteOnce ==
    [][/\ result' # Ok => (APP_CONFIG' = APP_CONFIG /\ returned' = <<>>)
       /\ APP_CONFIG # <<>> => APP_CONFIG' = APP_CONFIG
       /\ (APP_CONFIG = <<>> /\ result' = Ok) => APP_CONFIG' = <<loaded'.listeners>>
       /\ result' = Ok => returned' = APP_CONFIG']_vars

C10_Witness ==
    /\ result = Ok
    /\ APP_CONFIG # <<>>
    /\ APP_CONFIG # <<loaded.listeners>>
    /\ returned = APP_CONFIG

(***************************************************************************)
(* Claims about ListenerConfig::validate (SpecListener)                    *)
(***************************************************************************)
HasDuplicateId(l) ==
    \E i, j \in DOMAIN l.targets : i # j /\ l.targets[i].id = l.targets[j].id

SubValidatorsPass(l) ==
    /\ \A i \in DOMAIN l.targets : l.targets[i].valid
    /\ l.response_valid

\* C1 (as claimed): target-id uniqueness is enforced by validate: a listener
\* whose target list holds two targets with the same id is rejected, so no
\* listener that passes validation has a duplicated target id.
C1_DuplicateIdsRejected ==
    vresult = Ok => ~HasDuplicateId(listener)

\* C2: under ConditionalRouting validate returns Ok only if every target has a
\* condition and at most one target is Default; a target without condition, or
\* two or more Default targets, always give an error, which is InvalidConfig
\* whenever the target and response validators that run first pass; and a
\* listener with every condition defined and zero or one Default target is
\* accepted once those validators pass.
C2_ConditionalRouting ==
    (vresult # NotRun /\ listener.strategy = "ConditionalRouting") =>
        LET ts == listener.targets
            missing == \E i \in DOMAIN ts : ts[i].condition = None
            defaults == Cardinality({i \in DOMAIN ts : ts[i].condition = "Default"})
        IN  /\ vresult = Ok => (~missing /\ defaults <= 1)
            /\ (missing \/ defaults >= 2) =>
                  /\ vresult.kind # "Ok"
                  /\ SubValidatorsPass(listener) => vresult.kind = "InvalidConfig"
            /\ (SubValidatorsPass(listener) /\ ~missing /\ defaults <= 1) => vresult = Ok

C2_Witness ==
    /\ listener.strategy = "ConditionalRouting"
    /\ Len(listener.targets) = 2
    /\ \A i \in DOMAIN listener.targets : listener.targets[i].condition = "Default"
    /\ SubValidatorsPass(listener)
    /\ vresult.kind = "InvalidConfig"

\* C3: under AlwaysTargetId, OkThenTargetId and FailedThenTargetId validate gives
\* an error when target_selector is absent or is not the id of a target of the
\* same listener (InvalidConfig whenever the target and response validators
\* pass), and accepts the selector when it is the id of one of the targets; under
\* every other strategy the result does not depend on the selector.
C3_TargetSelector ==
    vresult # NotRun =>
        LET ids == {listener.targets[i].id : i \in DOMAIN listener.targets}
            sel == listener.target_selector
        IN  IF listener.strategy \in {"AlwaysTargetId", "OkThenTargetId", "FailedThenTargetId"}
            THEN /\ (sel = None \/ sel \notin ids) =>
                        /\ vresult.kind # "Ok"
                        /\ SubValidatorsPass(listener) => vresult.kind = "InvalidConfig"
                 /\ (SubValidatorsPass(listener) /\ sel \in ids) => vresult = Ok
            ELSE \A s \in {None, UnknownId} \cup TargetIds :
                    ListenerValidate([listener EXCEPT !.target_selector = s]) = vresult

C3_Witness ==
    /\ listener.strategy = "OkThenTargetId"
    /\ listener.target_selector = "T2"
    /\ Len(listener.targets) = 1
    /\ listener.targets[1].id = "T1"
    /\ SubValidatorsPass(listener)
    /\ vresult = Err("InvalidConfig", "target_selector points to unknown target_id", "L1")

(***************************************************************************)
(* Claims about the engine (SpecEngine)                                    *)
(***************************************************************************)
\* C4: a request whose lowercased method is not in the configured methods list
\* is answered with the 405 rejection and no target is ever dispatched for it;
\* with no methods list configured no request is rejected.
C4_MethodFilter ==
    phase # "idle" =>
        /\ (cfg.methods.some /\ \A i \in DOMAIN cfg.methods.list :
                                  cfg.methods.list[i] # to_lowercase(req.method)) =>
              /\ phase = "rejected"
              /\ response.source = "Rejected405"
              /\ \A t \in TargetIds : outcome[t].state = "NotDispatched"
        /\ ~cfg.methods.some => phase # "rejected"

C4_Witness ==
    /\ phase = "rejected"
    /\ cfg.methods.list = <<"get">>
    /\ req.method = "POST"
    /\ \A t \in TargetIds : outcome[t] = NoOutcome

\* C5 (as claimed): under every strategy but ConditionalRouting, once the
\* resolver has returned Decided, it returns Decided with the same chosen
\* response on the same outcome map and on every map in which further Pending
\* outcomes have become terminal.
C5_Monotonic ==
    (cfg.strategy # "ConditionalRouting" /\ decision.kind = "Decided") =>
        \A d \in Resolve(cfg, outcome) :
            d.kind = "Decided" /\ d.source = decision.source

\* C6: the outcome of a dispatched target starts Pending, leaves Pending only
\* for Completed, Failed, TimedOut or Cancelled, and never changes once it is
\* terminal, whatever the order of response arrival, deadline expiry and
\* cancellation; and, the deadline timer being fair, every Pending outcome
\* becomes terminal.
C6_OutcomeLifecycle ==
    /\ \A t \in TargetIds :
          (outcome[t].state = "Pending") ~> IsTerminal(outcome[t])
    /\ [][\A t \in TargetIds :
            /\ outcome[t].state = "NotDispatched" =>
                  outcome'[t] \in {NoOutcome, PendingOutcome}
            /\ outcome[t].state = "Pending" =>
                  (outcome'[t] = outcome[t] \/ IsTerminal(outcome'[t]))
            /\ IsTerminal(outcome[t]) => outcome'[t] = outcome[t]]_vars

C6_Witness ==
    /\ cancelSig = TargetIds
    /\ outcome["T1"].state = "Completed"
    /\ outcome["T2"].state = "Cancelled"

\* C7 (as claimed): under FailedThenOverride, while T2 is terminal and failed
\* and T1 is Pending the resolver returns NotYetDecidable; once T1 is failed
\* too it decides on a failed outcome chosen by the selection policy.
C7_WaitsForT1 ==
    (cfg.strategy = "FailedThenOverride" /\ IsFailed(cfg, outcome["T2"])) =>
        /\ outcome["T1"].state = "Pending" => Resolve(cfg, outcome) = {NotYetDecidable}
        /\ IsFailed(cfg, outcome["T1"]) =>
              Resolve(cfg, outcome) = {Decided(t) : t \in Pick(cfg.policy, TargetIds, outcome)}

\* C8: under ConditionalRouting with T1's condition matching the request and
\* T2 the Default target, T1 is dispatched and T2 never is, and the response is
\* returned exactly when T1 is terminal and is T1's outcome.
C8_DefaultOnlyAsFallback ==
    (/\ cfg.strategy = "ConditionalRouting"
     /\ phase \in {"dispatched", "responded"}
     /\ cfg.conditions["T2"] = "Default"
     /\ cfg.conditions["T1"] \in req.matched) =>
        /\ outcome["T2"].state = "NotDispatched"
        /\ outcome["T1"].state # "NotDispatched"
        /\ phase = "responded" <=> IsTerminal(outcome["T1"])
        /\ phase = "responded" =>
              response = [source |-> "T1", outcome |-> outcome["T1"]]

C8_Witness ==
    /\ cfg.strategy = "ConditionalRouting"
    /\ cfg.conditions["T2"] = "Default"
    /\ cfg.conditions["T1"] \in req.matched
    /\ phase = "responded"
    /\ outcome["T1"].state = "Completed"
    /\ response.source = "T1"
    /\ outcome["T2"] = NoOutcome

====
